---- MODULE Spec2Model ----
(***************************************************************************)
(* A model of package geoc (src/geoc.go): parsing and formatting of        *)
(* geographic coordinates and points.                                      *)
(*                                                                         *)
(* Strings are sequences of one-character strings.  The degree sign        *)
(* U+00B0 is written DegSign; it is one rune for the pattern and two bytes *)
(* for len().  A float64 value is an exact decimal rational, kept as an    *)
(* integer number of units of 1/(3600 * 10^MaxFrac) degree, so that        *)
(* degrees + minutes/60 + seconds/3600 is computed without error for every *)
(* input with at most MaxFrac fraction digits; the representation error of *)
(* binary floating point is not part of the model.                         *)
(***************************************************************************)
EXTENDS Integers, Sequences, FiniteSets, TLC

VARIABLES pc, text, example, coord, point, fmts, out, err, parsed, msg, args, calls, cgs

vars == <<pc, text, example, coord, point, fmts, out, err, parsed, msg, args, calls, cgs>>

(***************************************************************************)
(* Bounds of the model.                                                    *)
(***************************************************************************)
\* the most fraction digits a number of an input or of a template carries
MaxFrac == 2
\* the longest free-form input (any characters of Alphabet)
MaxLen == 4

(***************************************************************************)
(* Characters and strings.                                                 *)
(***************************************************************************)
DegSign == "o"

Spaces == {" ", "\t", "\n", "\f", "\r"}

DigitChars == {"0", "1", "2", "3", "4", "5", "6", "7", "8", "9"}

DecMarks == {".", ","}

SignChars == {"-", "+"}

LocChars == {"N", "S", "E", "W"}

DegSeps == {"-", DegSign}

MinSeps == {"-", "'"}

SecSeps == {" ", "\""}

\* len(string(c)): the degree sign takes two bytes in UTF-8
ByteLen(c) == IF c = DegSign THEN 2 ELSE 1

RECURSIVE StrLen(_)
\* len(s) of a Go string: its length in bytes
StrLen(s) == IF s = <<>> THEN 0 ELSE ByteLen(Head(s)) + StrLen(Tail(s))

RECURSIVE Pow10(_)
Pow10(n) == IF n = 0 THEN 1 ELSE 10 * Pow10(n - 1)

\* strings.IndexAny(s, ".,"): the first index (from 1) of a decimal mark, 0 if none
IndexAnyMark(s) ==
    IF \E i \in 1..Len(s) : s[i] \in DecMarks
    THEN CHOOSE i \in 1..Len(s) : s[i] \in DecMarks /\ \A j \in 1..(i - 1) : s[j] \notin DecMarks
    ELSE 0

RECURSIVE TrimLeft(_)
TrimLeft(s) == IF s # <<>> /\ Head(s) \in Spaces THEN TrimLeft(Tail(s)) ELSE s

RECURSIVE TrimRight(_)
TrimRight(s) ==
    IF s # <<>> /\ s[Len(s)] \in Spaces THEN TrimRight(SubSeq(s, 1, Len(s) - 1)) ELSE s

\* strings.TrimSpace
TrimSpace(s) == TrimRight(TrimLeft(s))

(***************************************************************************)
(* Errors.                                                                 *)
(***************************************************************************)
Nil == "nil"

ErrInvalidString == "ErrInvalidString"

ErrInvalidCoord == "ErrInvalidCoord"

ErrOutOfRange == "ErrOutOfRange"

(***************************************************************************)
(* Location, Coord, Point.                                                 *)
(***************************************************************************)
None == "None"

Lat == "Lat"

Lon == "Lon"

\* Coord{}: the zero value
ZeroCoord == [Value |-> 0, Loc |-> None]

\* Point{}
ZeroPoint == [Lat |-> ZeroCoord, Lon |-> ZeroCoord]

\* one degree, in the units of Coord.Value
Scale == 3600 * Pow10(MaxFrac)

(***************************************************************************)
(* coordRegExp: the pattern                                                *)
(*   spaces, sgn?, deg, dsr?, (min, msr?)?, (sec, ssr?)?, loc?, spaces     *)
(* matched leftmost-first.  Every quantifier is greedy and everything      *)
(* after the first digit of deg may match the empty string, so the match   *)
(* that starts at a position is the one that takes as much as it can at    *)
(* each step.                                                              *)
(***************************************************************************)
RECURSIVE SkipSet(_, _, _)
\* the first position at or after i whose character is not in S
SkipSet(s, i, S) == IF i <= Len(s) /\ s[i] \in S THEN SkipSet(s, i + 1, S) ELSE i

\* a decimal mark and digits at j: the position after them, or j when there
\* is no mark followed by a digit at j
FractionEnd(s, j) ==
    IF j < Len(s) /\ s[j] \in DecMarks /\ s[j + 1] \in DigitChars
    THEN SkipSet(s, j + 1, DigitChars)
    ELSE j

\* a number (digits, then optionally a decimal mark and digits) at i: the
\* position after it, or i when no digit is at i
NumberEnd(s, i) ==
    IF SkipSet(s, i, DigitChars) = i THEN i ELSE FractionEnd(s, SkipSet(s, i, DigitChars))

\* at most one character of P at i: the position after it
OptEnd(s, i, P) == IF i <= Len(s) /\ s[i] \in P THEN i + 1 ELSE i

\* a separator (spaces, at most one character of P, spaces) at i: the position after it
SepEnd(s, i, P) == SkipSet(s, OptEnd(s, SkipSet(s, i, Spaces), P), Spaces)

\* the position after the k-th part of the pattern, ps being the positions
\* where the match and its first k - 1 parts end
PartEnd(s, k, ps) ==
    CASE k = 1 -> SkipSet(s, ps[1], Spaces)
      [] k = 2 -> OptEnd(s, ps[2], SignChars)
      [] k = 3 -> NumberEnd(s, ps[3])
      [] k = 4 -> SepEnd(s, ps[4], DegSeps)
      [] k = 5 -> NumberEnd(s, ps[5])
      [] k = 6 -> IF ps[6] = ps[5] THEN ps[6] ELSE SepEnd(s, ps[6], MinSeps)
      [] k = 7 -> NumberEnd(s, ps[7])
      [] k = 8 -> IF ps[8] = ps[7] THEN ps[8] ELSE SepEnd(s, ps[8], SecSeps)
      [] k = 9 -> OptEnd(s, ps[9], LocChars)
      [] k = 10 -> SkipSet(s, ps[10], Spaces)

RECURSIVE PartEnds(_, _)
\* the start of a match followed by the positions after each of its ten parts
PartEnds(s, ps) ==
    IF Len(ps) = 11 THEN ps ELSE PartEnds(s, Append(ps, PartEnd(s, Len(ps), ps)))

\* the match whose parts end at ps; ok is FALSE when deg has no digit
MatchOf(s, ps) ==
    [ok |-> ps[4] > ps[3], start |-> ps[1], end |-> ps[11],
     groups |-> [ws1 |-> SubSeq(s, ps[1], ps[2] - 1),
                 sgn |-> SubSeq(s, ps[2], ps[3] - 1),
                 deg |-> SubSeq(s, ps[3], ps[4] - 1),
                 dsr |-> SubSeq(s, ps[4], ps[5] - 1),
                 min |-> SubSeq(s, ps[5], ps[6] - 1),
                 msr |-> SubSeq(s, ps[6], ps[7] - 1),
                 sec |-> SubSeq(s, ps[7], ps[8] - 1),
                 ssr |-> SubSeq(s, ps[8], ps[9] - 1),
                 loc |-> SubSeq(s, ps[9], ps[10] - 1),
                 ws2 |-> SubSeq(s, ps[10], ps[11] - 1)]]

\* The match of coordRegExp that starts at position i (ok is FALSE when no
\* match starts at i).
MatchAt(s, i) == MatchOf(s, PartEnds(s, <<i>>))

\* whether the first match at or after p starts at x
FirstMatchAt(s, p, x) == MatchAt(s, x).ok /\ \A y \in p..(x - 1) : ~MatchAt(s, y).ok

RECURSIVE FindFrom(_, _, _)
RECURSIVE FindRest(_, _, _)
\* the match m and the matches after it, at most n in all
FindRest(s, m, n) == <<m.groups>> \o FindFrom(s, m.end, n - 1)

\* the matches found from position p on, at most n of them, left to right
FindFrom(s, p, n) ==
    IF n = 0 \/ ~(\E i \in p..Len(s) : MatchAt(s, i).ok) THEN <<>>
    ELSE FindRest(s, MatchAt(s, CHOOSE x \in p..Len(s) : FirstMatchAt(s, p, x)), n)

\* coordRegExp.FindAllStringSubmatch(cs, n)
FindAllStringSubmatch(cs, n) == FindFrom(cs, 1, n)

(***************************************************************************)
(* coordGroups.                                                            *)
(***************************************************************************)
EmptyGroups ==
    [sgn |-> <<>>, deg |-> <<>>, min |-> <<>>, sec |-> <<>>, loc |-> <<>>,
     compact |-> FALSE, sep |-> [deg |-> <<>>, min |-> <<>>, sec |-> <<>>]]

makeSep(sep) ==
    IF TrimSpace(sep) # <<>> THEN TrimSpace(sep)
    ELSE IF sep # <<>> THEN <<" ">>
    ELSE <<>>

coordGroupsFromMatch(m) ==
    [cg |-> [sgn |-> m.sgn, deg |-> m.deg, min |-> m.min, sec |-> m.sec, loc |-> m.loc,
             compact |-> FALSE,
             sep |-> [deg |-> makeSep(m.dsr), min |-> makeSep(m.msr), sec |-> makeSep(m.ssr)]],
     totalLen |-> StrLen(m.ws1) + StrLen(m.sgn) + StrLen(m.deg) + StrLen(m.dsr)
                  + StrLen(m.min) + StrLen(m.msr) + StrLen(m.sec) + StrLen(m.ssr)
                  + StrLen(m.loc) + StrLen(m.ws2)]

\* normalizeCompact that splits without a location letter too: what C14 tells
\* from the code
normalizeCompact_noLetter(cg) ==
    IF Len(cg.min) = 4 /\ cg.sec = <<>> /\ IndexAnyMark(cg.min) = 0
    THEN [cg EXCEPT !.compact = TRUE, !.sec = SubSeq(cg.min, 3, 4), !.min = SubSeq(cg.min, 1, 2)]
    ELSE cg

normalizeCompact(cg) ==
    IF Len(cg.min) = 4 /\ cg.sec = <<>> /\ cg.loc # <<>> /\ IndexAnyMark(cg.min) = 0
    THEN [cg EXCEPT !.compact = TRUE, !.sec = SubSeq(cg.min, 3, 4), !.min = SubSeq(cg.min, 1, 2)]
    ELSE cg

degDec == "degDec"

minDec == "minDec"

dms == "dms"

\* getFormatClass that takes a compact token for minutes: what C13 tells from
\* the code
getFormatClass_compactAsMinutes(cg) ==
    IF cg.compact THEN minDec
    ELSE IF cg.min = <<>> THEN degDec
    ELSE IF cg.sec = <<>> THEN minDec
    ELSE dms

getFormatClass(cg) ==
    IF cg.min = <<>> THEN degDec
    ELSE IF cg.sec = <<>> THEN minDec
    ELSE dms

\* newCoordGroups without the comparison of totalLen with len(cs): what C9
\* tells from the code
newCoordGroups_noTotalLen(cs) ==
    LET m == FindAllStringSubmatch(cs, 2)
    IN  IF Len(m) = 0 THEN [cg |-> EmptyGroups, err |-> ErrInvalidString]
        ELSE IF Len(m) > 1 THEN [cg |-> EmptyGroups, err |-> ErrInvalidString]
        ELSE [cg |-> normalizeCompact(coordGroupsFromMatch(m[1]).cg), err |-> Nil]

newCoordGroups(cs) ==
    LET m == FindAllStringSubmatch(cs, 2)
    IN  IF Len(m) = 0 THEN [cg |-> EmptyGroups, err |-> ErrInvalidString]
        ELSE IF Len(m) > 1 THEN [cg |-> EmptyGroups, err |-> ErrInvalidString]
        ELSE LET r == coordGroupsFromMatch(m[1])
             IN  IF r.totalLen # StrLen(cs)
                 THEN [cg |-> r.cg, err |-> ErrInvalidString]
                 ELSE [cg |-> normalizeCompact(r.cg), err |-> Nil]

\* newPointGroups without the test for a third match: what C10 tells from the
\* code
newPointGroups_noTooMany(cs) ==
    LET m == FindAllStringSubmatch(cs, 3)
    IN  IF Len(m) < 2
        THEN [cgLat |-> EmptyGroups, cgLon |-> EmptyGroups, err |-> ErrInvalidString]
        ELSE [cgLat |-> normalizeCompact(coordGroupsFromMatch(m[1]).cg),
              cgLon |-> normalizeCompact(coordGroupsFromMatch(m[2]).cg),
              err |-> Nil]

newPointGroups(cs) ==
    LET m == FindAllStringSubmatch(cs, 3)
    IN  IF Len(m) = 0 THEN [cgLat |-> EmptyGroups, cgLon |-> EmptyGroups, err |-> ErrInvalidString]
        ELSE IF Len(m) = 1
             THEN [cgLat |-> EmptyGroups, cgLon |-> EmptyGroups, err |-> ErrInvalidString]
        ELSE IF Len(m) > 2
             THEN [cgLat |-> EmptyGroups, cgLon |-> EmptyGroups, err |-> ErrInvalidString]
        ELSE [cgLat |-> normalizeCompact(coordGroupsFromMatch(m[1]).cg),
              cgLon |-> normalizeCompact(coordGroupsFromMatch(m[2]).cg),
              err |-> Nil]

(***************************************************************************)
(* Numbers.  strconv.ParseFloat of a matched field, in units of            *)
(* 1/10^MaxFrac: exact for a field with at most MaxFrac fraction digits.   *)
(***************************************************************************)
DigitVal(c) ==
    CASE c = "0" -> 0 [] c = "1" -> 1 [] c = "2" -> 2 [] c = "3" -> 3 [] c = "4" -> 4
      [] c = "5" -> 5 [] c = "6" -> 6 [] c = "7" -> 7 [] c = "8" -> 8 [] c = "9" -> 9

RECURSIVE DigitsVal(_)
\* the number a string of digits writes
DigitsVal(s) == IF s = <<>> THEN 0 ELSE 10 * DigitsVal(SubSeq(s, 1, Len(s) - 1)) + DigitVal(s[Len(s)])

\* whether strconv.ParseFloat accepts s, once its decimal mark is a period:
\* digits, or digits, one mark and digits
IsNumber(s) ==
    /\ s # <<>>
    /\ \A i \in 1..Len(s) : s[i] \in DigitChars \/ (s[i] \in DecMarks /\ i = IndexAnyMark(s))
    /\ IndexAnyMark(s) \notin {1, Len(s)}

\* the value of s in units of 1/10^MaxFrac
ParseFloat(s) ==
    LET idx == IndexAnyMark(s)
        int == IF idx = 0 THEN s ELSE SubSeq(s, 1, idx - 1)
        frac == IF idx = 0 THEN <<>> ELSE SubSeq(s, idx + 1, Len(s))
    IN  DigitsVal(int) * Pow10(MaxFrac)
        + (IF Len(frac) <= MaxFrac
           THEN DigitsVal(frac) * Pow10(MaxFrac - Len(frac))
           ELSE DigitsVal(SubSeq(frac, 1, MaxFrac)))

\* the limits of the fields, in the code's own units
LatLimit == 90

LonLimit == 180

MinSecLimit == 60

(***************************************************************************)
(* The evaluator: coordGroups to Coord.                                    *)
(***************************************************************************)
getLocation(cg) ==
    IF cg.loc = <<"N">> \/ cg.loc = <<"S">> THEN [loc |-> Lat, err |-> Nil]
    ELSE IF cg.loc = <<"E">> \/ cg.loc = <<"W">> THEN [loc |-> Lon, err |-> Nil]
    ELSE IF cg.loc = <<>> THEN [loc |-> None, err |-> Nil]
    ELSE [loc |-> None, err |-> ErrInvalidCoord]

checkSign(cg) ==
    IF cg.sgn = <<>> THEN Nil
    ELSE IF (cg.sgn = <<"+">> \/ cg.sgn = <<"-">>) /\ cg.loc # <<>> THEN ErrInvalidCoord
    ELSE Nil

\* checkLimits that lets the limit itself pass: what C8 tells from the code
checkLimits_inclusive(value, limit) ==
    IF value <= limit THEN [v |-> value, err |-> Nil]
    ELSE [v |-> 0, err |-> ErrOutOfRange]

\* value and limit in units of 1/10^MaxFrac
checkLimits(value, limit) ==
    IF value < limit THEN [v |-> value, err |-> Nil]
    ELSE [v |-> 0, err |-> ErrOutOfRange]

getDegrees(cg, loc) ==
    IF cg.deg = <<>> THEN [v |-> 0, err |-> ErrInvalidCoord]
    ELSE IF IndexAnyMark(cg.deg) # 0 /\ (cg.min # <<>> \/ cg.sec # <<>>)
         THEN [v |-> 0, err |-> ErrInvalidCoord]
    ELSE IF IsNumber(cg.deg)
         THEN LET degrees == ParseFloat(cg.deg)
                  limit == IF cg.loc = <<"S">> \/ cg.loc = <<"N">> \/ loc = Lat
                           THEN LatLimit ELSE LonLimit
              IN  IF degrees > limit * Pow10(MaxFrac)
                  THEN [v |-> 0, err |-> ErrOutOfRange]
                  ELSE [v |-> degrees, err |-> Nil]
    ELSE [v |-> 0, err |-> ErrInvalidCoord]

\* getMinutes that checks the range before the decimal mark: what C7 tells
\* from the code
getMinutes_rangeFirst(cg) ==
    IF cg.min = <<>> THEN [v |-> 0, err |-> Nil]
    ELSE IF IsNumber(cg.min) /\ ParseFloat(cg.min) >= MinSecLimit * Pow10(MaxFrac)
         THEN [v |-> 0, err |-> ErrOutOfRange]
    ELSE IF IndexAnyMark(cg.min) # 0 /\ cg.sec # <<>> THEN [v |-> 0, err |-> ErrInvalidCoord]
    ELSE IF IsNumber(cg.min) THEN [v |-> ParseFloat(cg.min), err |-> Nil]
    ELSE [v |-> 0, err |-> ErrInvalidCoord]

getMinutes(cg) ==
    IF cg.min = <<>> THEN [v |-> 0, err |-> Nil]
    ELSE IF IndexAnyMark(cg.min) # 0 /\ cg.sec # <<>> THEN [v |-> 0, err |-> ErrInvalidCoord]
    ELSE IF IsNumber(cg.min)
         THEN checkLimits(ParseFloat(cg.min), MinSecLimit * Pow10(MaxFrac))
    ELSE [v |-> 0, err |-> ErrInvalidCoord]

getSeconds(cg) ==
    IF cg.sec = <<>> THEN [v |-> 0, err |-> Nil]
    ELSE IF IsNumber(cg.sec)
         THEN checkLimits(ParseFloat(cg.sec), MinSecLimit * Pow10(MaxFrac))
    ELSE [v |-> 0, err |-> ErrInvalidCoord]

\* getCoord that negates for a minus sign only: what C15 tells from the code
getCoord_signOnly(cg) ==
    IF checkSign(cg) # Nil THEN [coord |-> ZeroCoord, err |-> checkSign(cg)]
    ELSE IF getLocation(cg).err # Nil THEN [coord |-> ZeroCoord, err |-> getLocation(cg).err]
    ELSE IF getDegrees(cg, getLocation(cg).loc).err # Nil
         THEN [coord |-> ZeroCoord, err |-> getDegrees(cg, getLocation(cg).loc).err]
    ELSE IF getMinutes(cg).err # Nil THEN [coord |-> ZeroCoord, err |-> getMinutes(cg).err]
    ELSE IF getSeconds(cg).err # Nil THEN [coord |-> ZeroCoord, err |-> getSeconds(cg).err]
    ELSE [coord |-> [Value |-> (IF cg.sgn = <<"-">> THEN -1 ELSE 1)
                                  * (getDegrees(cg, getLocation(cg).loc).v * 3600
                                     + getMinutes(cg).v * 60 + getSeconds(cg).v),
                     Loc |-> getLocation(cg).loc],
          err |-> Nil]

\* getCoord that evaluates the numbers before it checks the sign: what C6
\* tells from the code
getCoord_numbersFirst(cg) ==
    LET loc == getLocation(cg).loc
        deg == getDegrees(cg, loc)
        minutes == getMinutes(cg)
        sec == getSeconds(cg)
    IN  IF getLocation(cg).err # Nil THEN [coord |-> ZeroCoord, err |-> getLocation(cg).err]
        ELSE IF deg.err # Nil THEN [coord |-> ZeroCoord, err |-> deg.err]
        ELSE IF minutes.err # Nil THEN [coord |-> ZeroCoord, err |-> minutes.err]
        ELSE IF sec.err # Nil THEN [coord |-> ZeroCoord, err |-> sec.err]
        ELSE IF checkSign(cg) # Nil THEN [coord |-> ZeroCoord, err |-> checkSign(cg)]
        ELSE LET value == deg.v * 3600 + minutes.v * 60 + sec.v
             IN  [coord |-> [Value |-> IF cg.sgn = <<"-">> \/ cg.loc = <<"S">>
                                           \/ cg.loc = <<"W">>
                                        THEN -value ELSE value,
                             Loc |-> loc],
                  err |-> Nil]

getCoord(cg) ==
    IF checkSign(cg) # Nil THEN [coord |-> ZeroCoord, err |-> checkSign(cg)]
    ELSE IF getLocation(cg).err # Nil THEN [coord |-> ZeroCoord, err |-> getLocation(cg).err]
    ELSE LET loc == getLocation(cg).loc
             deg == getDegrees(cg, loc)
             minutes == getMinutes(cg)
             sec == getSeconds(cg)
         IN  IF deg.err # Nil THEN [coord |-> ZeroCoord, err |-> deg.err]
             ELSE IF minutes.err # Nil THEN [coord |-> ZeroCoord, err |-> minutes.err]
             ELSE IF sec.err # Nil THEN [coord |-> ZeroCoord, err |-> sec.err]
             ELSE LET value == deg.v * 3600 + minutes.v * 60 + sec.v
                  IN  [coord |-> [Value |-> IF cg.sgn = <<"-">> \/ cg.loc = <<"S">>
                                                \/ cg.loc = <<"W">>
                                             THEN -value ELSE value,
                                  Loc |-> loc],
                       err |-> Nil]

ParseCoord(s) ==
    LET r == newCoordGroups(s)
    IN  IF r.err # Nil THEN [coord |-> ZeroCoord, err |-> r.err]
        ELSE getCoord(r.cg)

\* ParsePoint without the test of the latitude's location: what C12 tells from
\* the code
ParsePoint_anyFirst(s) ==
    LET g == newPointGroups(s)
        lat == getCoord(g.cgLat)
        lon == getCoord(g.cgLon)
    IN  IF g.err # Nil THEN [point |-> ZeroPoint, err |-> g.err]
        ELSE IF lat.err # Nil THEN [point |-> ZeroPoint, err |-> lat.err]
        ELSE IF lon.err # Nil THEN [point |-> ZeroPoint, err |-> lon.err]
        ELSE IF lon.coord.Loc # Lon THEN [point |-> ZeroPoint, err |-> ErrInvalidString]
        ELSE IF getFormatClass(g.cgLat) # getFormatClass(g.cgLon)
             THEN [point |-> ZeroPoint, err |-> ErrInvalidString]
        ELSE [point |-> [Lat |-> lat.coord, Lon |-> lon.coord], err |-> Nil]

\* ParsePoint that keeps the latitude it has evaluated when it fails later:
\* what C30 tells from the code
ParsePoint_keepsLat(s) ==
    LET g == newPointGroups(s)
        lat == getCoord(g.cgLat)
        lon == getCoord(g.cgLon)
        p == [Lat |-> lat.coord, Lon |-> ZeroCoord]
    IN  IF g.err # Nil THEN [point |-> ZeroPoint, err |-> g.err]
        ELSE IF lat.err # Nil THEN [point |-> ZeroPoint, err |-> lat.err]
        ELSE IF lat.coord.Loc # Lat THEN [point |-> p, err |-> ErrInvalidString]
        ELSE IF lon.err # Nil THEN [point |-> p, err |-> lon.err]
        ELSE IF lon.coord.Loc # Lon THEN [point |-> p, err |-> ErrInvalidString]
        ELSE IF getFormatClass(g.cgLat) # getFormatClass(g.cgLon)
             THEN [point |-> p, err |-> ErrInvalidString]
        ELSE [point |-> [Lat |-> lat.coord, Lon |-> lon.coord], err |-> Nil]

ParsePoint(s) ==
    LET g == newPointGroups(s)
        lat == getCoord(g.cgLat)
        lon == getCoord(g.cgLon)
    IN  IF g.err # Nil THEN [point |-> ZeroPoint, err |-> g.err]
        ELSE IF lat.err # Nil THEN [point |-> ZeroPoint, err |-> lat.err]
        ELSE IF lat.coord.Loc # Lat THEN [point |-> ZeroPoint, err |-> ErrInvalidString]
        ELSE IF lon.err # Nil THEN [point |-> ZeroPoint, err |-> lon.err]
        ELSE IF lon.coord.Loc # Lon THEN [point |-> ZeroPoint, err |-> ErrInvalidString]
        ELSE IF getFormatClass(g.cgLat) # getFormatClass(g.cgLon)
             THEN [point |-> ZeroPoint, err |-> ErrInvalidString]
        ELSE [point |-> [Lat |-> lat.coord, Lon |-> lon.coord], err |-> Nil]

StringToCoord(cs) == ParseCoord(cs)

StringToPoint(lat, lon) == ParsePoint(lat \o <<";", " ">> \o lon)

(***************************************************************************)
(* fmt.Sprintf of a non-negative value with a fixed number of fraction     *)
(* digits, rounded to nearest.  A value that lies exactly halfway between  *)
(* two renderings is a float64 a hair above or below the half in the code, *)
(* so a tie goes either way: tie is 0 (down) or 1 (up), chosen by the      *)
(* caller.                                                                 *)
(***************************************************************************)
RECURSIVE NatDigits(_)
\* the decimal digits of n, without leading zeros ("0" for 0)
NatDigits(n) ==
    IF n < 10 THEN <<CHOOSE c \in DigitChars : DigitVal(c) = n>>
    ELSE NatDigits(n \div 10) \o <<CHOOSE c \in DigitChars : DigitVal(c) = n % 10>>

RECURSIVE ZeroPad(_, _)
\* s padded on the left with zeros to at least width characters
ZeroPad(s, width) == IF Len(s) >= width THEN s ELSE ZeroPad(<<"0">> \o s, width)

\* round(num / den); an exact tie is rounded down (tie = 0) or up (tie = 1)
RoundDiv(num, den, tie) ==
    LET q == num \div den
        r == num % den
    IN  IF 2 * r > den THEN q + 1
        ELSE IF 2 * r = den THEN q + tie
        ELSE q

\* one step of the long division of a remainder by Scale: x is the pair of
\* the digits found so far and the remainder left
DivideStep(x) == <<x[1] * 10 + (x[2] * 10) \div Scale, (x[2] * 10) % Scale>>

RECURSIVE DivideFrac(_, _)
\* the first p fraction digits of rem/Scale, as a number, and the remainder
DivideFrac(rem, p) == IF p = 0 THEN <<0, rem>> ELSE DivideStep(DivideFrac(rem, p - 1))

\* the digits x[1] rounded up when the remainder x[2] is more than half of
\* Scale, and by tie when it is exactly half
RoundUp(x, tie) ==
    IF 2 * x[2] > Scale THEN x[1] + 1
    ELSE IF 2 * x[2] = Scale THEN x[1] + tie
    ELSE x[1]

\* round(num * 10^precision / Scale) for a precision beyond MaxFrac, digit by
\* digit so that no product exceeds the range of the model's integers
RoundLong(num, precision, tie) ==
    (num \div Scale) * Pow10(precision) + RoundUp(DivideFrac(num % Scale, precision), tie)

\* Sprintf("%0*.*f", width, precision, num/Scale); width 0 stands for no width.
\* Scale is a multiple of 10^precision when precision is at most MaxFrac.
SprintfFixed(width, precision, num, tie) ==
    LET q == IF precision <= MaxFrac THEN RoundDiv(num, Scale \div Pow10(precision), tie)
             ELSE RoundLong(num, precision, tie)
        int == NatDigits(q \div Pow10(precision))
        frac == ZeroPad(NatDigits(q % Pow10(precision)), precision)
    IN  IF precision > 0 THEN ZeroPad(int \o <<".">> \o frac, width)
        ELSE ZeroPad(int, width)

\* strings.Replace(s, ".", ",", 1)
ReplaceMark(s) ==
    IF \E i \in 1..Len(s) : s[i] = "."
    THEN LET i == CHOOSE x \in 1..Len(s) : s[x] = "." /\ \A y \in 1..(x - 1) : s[y] # "."
         IN  [s EXCEPT ![i] = ","]
    ELSE s

Abs(x) == IF x < 0 THEN -x ELSE x

(***************************************************************************)
(* Coord.Format.                                                           *)
(***************************************************************************)
\* detectDecimal that always answers with a period: what C25 tells from the
\* code
detectDecimal_period(s) ==
    IF IndexAnyMark(s) # 0
    THEN [decSep |-> ".", precision |-> Len(s) - IndexAnyMark(s)]
    ELSE [decSep |-> ".", precision |-> 0]

\* detectDecimal: the decimal separator and the precision a field shows
detectDecimal(s) ==
    IF IndexAnyMark(s) # 0
    THEN [decSep |-> s[IndexAnyMark(s)], precision |-> Len(s) - IndexAnyMark(s)]
    ELSE [decSep |-> ".", precision |-> 0]

\* the location taken from the example's letter first and from the Coord only
\* without one: what C24 tells from the code
effectiveLoc_exampleFirst(c, cg) ==
    IF cg.loc = <<"N">> \/ cg.loc = <<"S">> THEN Lat
    ELSE IF cg.loc = <<"E">> \/ cg.loc = <<"W">> THEN Lon
    ELSE c.Loc

\* the location the value is formatted for: the Coord's own, else the example's
effectiveLoc(c, cg) ==
    IF c.Loc # None THEN c.Loc
    ELSE IF cg.loc = <<"N">> \/ cg.loc = <<"S">> THEN Lat
    ELSE IF cg.loc = <<"E">> \/ cg.loc = <<"W">> THEN Lon
    ELSE None

\* whether the value is outside the bounds of its location
outOfBounds(loc, absCoord) ==
    \/ loc = Lat /\ absCoord > LatLimit * Scale
    \/ loc = Lon /\ absCoord > LonLimit * Scale

\* the location letter of the output
locLetter(cg, loc, negative) ==
    IF cg.loc # <<>>
    THEN IF loc = Lat THEN (IF negative THEN <<"S">> ELSE <<"N">>)
         ELSE (IF negative THEN <<"W">> ELSE <<"E">>)
    ELSE <<>>

\* the rendering of an in-range value by the example's groups
render(c, cg, tie) ==
    LET loc == effectiveLoc(c, cg)
        absCoord == Abs(c.Value)
        negative == c.Value < 0
        hasSec == cg.sec # <<>>
        hasMin == cg.min # <<>>
        dd == IF hasSec /\ ~cg.compact THEN detectDecimal(cg.sec)
              ELSE IF hasMin /\ ~cg.compact THEN detectDecimal(cg.min)
              ELSE IF ~hasMin THEN detectDecimal(cg.deg)
              ELSE [decSep |-> ".", precision |-> 0]
        decSep == dd.decSep
        precision == dd.precision
        degWidth == IF IndexAnyMark(cg.deg) # 0 THEN IndexAnyMark(cg.deg) - 1 ELSE Len(cg.deg)
        letter == locLetter(cg, loc, negative)
        mark(s) == IF decSep = "," THEN ReplaceMark(s) ELSE s
        deg == absCoord \div Scale
        degStr == SprintfFixed(degWidth, 0, deg * Scale, tie)
        \* (absCoord - deg) * 60, in units of 1/Scale
        totalMin == (absCoord - deg * Scale) * 60
        minutes == totalMin \div Scale
        \* (totalMin - minutes) * 60, in units of 1/Scale
        sec == (totalMin - minutes * Scale) * 60
    IN  IF ~hasMin
        THEN LET num == IF precision > 0
                        THEN SprintfFixed(degWidth + 1 + precision, precision, absCoord, tie)
                        ELSE SprintfFixed(degWidth, 0, absCoord, tie)
                 signed == IF negative /\ cg.loc = <<>> THEN <<"-">> \o mark(num)
                           ELSE IF cg.sgn = <<"+">> THEN <<"+">> \o mark(num)
                           ELSE mark(num)
             IN  signed \o cg.sep.deg \o letter
        ELSE IF ~hasSec
        THEN degStr \o cg.sep.deg \o mark(SprintfFixed(0, precision, totalMin, tie))
                    \o cg.sep.min \o letter
        ELSE IF cg.compact
        THEN degStr \o cg.sep.deg \o SprintfFixed(2, 0, minutes * Scale, tie)
                    \o SprintfFixed(2, 0, sec, tie) \o letter
        ELSE degStr \o cg.sep.deg \o SprintfFixed(0, 0, minutes * Scale, tie) \o cg.sep.min
                    \o mark(SprintfFixed(0, precision, sec, tie)) \o cg.sep.sec \o letter

\* Coord.Format that checks the bounds before the example: what C21 tells from
\* the code
CoordFormat_rangeFirst(c, ex, tie) ==
    LET r == newCoordGroups(ex)
    IN  IF outOfBounds(effectiveLoc(c, r.cg), Abs(c.Value))
        THEN [s |-> <<>>, err |-> ErrOutOfRange]
        ELSE IF r.err # Nil THEN [s |-> <<>>, err |-> ErrInvalidString]
        ELSE [s |-> render(c, r.cg, tie), err |-> Nil]

\* Coord.Format that also evaluates the example as ParseCoord does: what C28
\* tells from the code
CoordFormat_validated(c, ex, tie) ==
    LET r == newCoordGroups(ex)
    IN  IF r.err # Nil THEN [s |-> <<>>, err |-> ErrInvalidString]
        ELSE IF getCoord(r.cg).err # Nil THEN [s |-> <<>>, err |-> ErrInvalidString]
        ELSE IF outOfBounds(effectiveLoc(c, r.cg), Abs(c.Value))
             THEN [s |-> <<>>, err |-> ErrOutOfRange]
        ELSE [s |-> render(c, r.cg, tie), err |-> Nil]

\* Coord.Format(example)
CoordFormat(c, ex, tie) ==
    LET r == newCoordGroups(ex)
    IN  IF r.err # Nil THEN [s |-> <<>>, err |-> ErrInvalidString]
        ELSE IF outOfBounds(effectiveLoc(c, r.cg), Abs(c.Value))
             THEN [s |-> <<>>, err |-> ErrOutOfRange]
        ELSE [s |-> render(c, r.cg, tie), err |-> Nil]

\* Point.Format(latFmt, lonFmt, separator)
\* the result of Point.Format from the results lat and lon of the two sides
JoinSides(lat, lon, separator) ==
    IF lat.err # Nil THEN [s |-> <<>>, err |-> lat.err]
    ELSE IF lon.err # Nil THEN [s |-> <<>>, err |-> lon.err]
    ELSE [s |-> lat.s \o separator \o lon.s, err |-> Nil]

\* Point.Format that reports the longitude's error before the latitude's:
\* what C20 tells from the code
PointFormat_lonFirst(p, latFmt, lonFmt, separator, tieLat, tieLon) ==
    IF CoordFormat(p.Lon, lonFmt, tieLon).err # Nil
    THEN [s |-> <<>>, err |-> CoordFormat(p.Lon, lonFmt, tieLon).err]
    ELSE JoinSides(CoordFormat(p.Lat, latFmt, tieLat), CoordFormat(p.Lon, lonFmt, tieLon),
                   separator)

PointFormat(p, latFmt, lonFmt, separator, tieLat, tieLon) ==
    JoinSides(CoordFormat(p.Lat, latFmt, tieLat), CoordFormat(p.Lon, lonFmt, tieLon), separator)

(***************************************************************************)
(* The messages of the errors.  A message is the sequence of the parts     *)
(* fmt.Errorf puts together: the wrapped error (%w), fixed text, a quoted  *)
(* string (%q) and a number (%f).  The text of the error that ParseCoord   *)
(* and ParsePoint wrap is kept as its kind.                                *)
(***************************************************************************)
Wrapped(e) == [verb |-> "%w", arg |-> e]

Literal(s) == [verb |-> "", arg |-> s]

Quoted(s) == [verb |-> "%q", arg |-> s]

Float(v) == [verb |-> "%f", arg |-> v]

\* the message of the error e of ParseCoord(s), empty without an error
ParseCoordMsg(e, s) ==
    IF e = Nil THEN <<>> ELSE <<Wrapped(e), Literal(" in string "), Quoted(s)>>

\* the message of the error e of ParsePoint(s); what three of its messages
\* say before "in string" (bad latitude location, bad longitude location,
\* incompatible lat/lon formats) is left out
ParsePointMsg(e, s) ==
    IF e = Nil THEN <<>> ELSE <<Wrapped(e), Literal(" in string "), Quoted(s)>>

\* the message of the error e of c.Format(ex)
CoordFormatMsg(e, c, ex) ==
    IF e = ErrInvalidString THEN <<Wrapped(e), Literal(": invalid example format")>>
    ELSE IF e = ErrOutOfRange
    THEN <<Wrapped(e),
           Literal(IF effectiveLoc(c, newCoordGroups(ex).cg) = Lat THEN ": latitude "
                   ELSE ": longitude "),
           Float(c.Value)>>
    ELSE <<>>

\* the message of the error e of p.Format(latFmt, lonFmt, separator): the
\* message of the side that failed and the string that side returned
PointFormatMsg(e, p, latFmt, lonFmt) ==
    IF e = Nil THEN <<>>
    ELSE IF CoordFormat(p.Lat, latFmt, 0).err # Nil
    THEN CoordFormatMsg(e, p.Lat, latFmt) \o <<Literal(": latitude "), Quoted(<<>>)>>
    ELSE CoordFormatMsg(e, p.Lon, lonFmt) \o <<Literal(": longitude "), Quoted(<<>>)>>

(***************************************************************************)
(* Coord.String and Point.String.                                          *)
(***************************************************************************)
\* the examples of the default views
LatExample == <<"4", "8", "-", "3", "3", ".", "0", "N">>

LonExample == <<"0", "4", "8", "-", "3", "3", ".", "0", "E">>

NoneExample == <<"4", "8", ".", "5", "5", "7", "4", "8", "9">>

PointSeparator == <<" ">>

RECURSIVE TrimZeros(_)
\* s without its trailing zeros
TrimZeros(s) ==
    IF s # <<>> /\ s[Len(s)] = "0" THEN TrimZeros(SubSeq(s, 1, Len(s) - 1)) ELSE s

\* the shortest decimal of a non-negative value of at most MaxFrac fraction
\* digits: its whole part, and its fraction digits if there are any
ShortestDecimal(whole, frac) ==
    IF frac = <<>> THEN whole ELSE whole \o <<".">> \o frac

\* strconv.FormatFloat(v, 'f', -1, 64), defined for the values that are a
\* whole number of units of 1/10^MaxFrac degree: those are the values of the
\* model that reach it
FormatFloat(v) ==
    CASE v % 3600 = 0 ->
        (IF v < 0 THEN <<"-">> ELSE <<>>)
            \o ShortestDecimal(NatDigits(Abs(v) \div Scale),
                               TrimZeros(ZeroPad(NatDigits((Abs(v) % Scale) \div 3600), MaxFrac)))

\* the example Coord.String formats by
DefaultExample(loc) ==
    IF loc = Lat THEN LatExample
    ELSE IF loc = Lon THEN LonExample
    ELSE NoneExample

\* the string of a Format result r of c, or the plain decimal when it failed
StringOf(c, r) == IF r.err # Nil THEN FormatFloat(c.Value) ELSE r.s

\* Coord.String()
CoordString(c, tie) == StringOf(c, CoordFormat(c, DefaultExample(c.Loc), tie))

\* the string of a Point.Format result, or the empty string when it failed
PointStringOf(r) == IF r.err # Nil THEN <<>> ELSE r.s

\* Point.String with the fallback the README describes: what C18 tells from
\* the code
PointString_readme(p, tieLat, tieLon) ==
    IF PointFormat(p, LatExample, LonExample, PointSeparator, tieLat, tieLon).err # Nil
    THEN CoordString(p.Lat, tieLat) \o <<" ">> \o CoordString(p.Lon, tieLon)
    ELSE PointFormat(p, LatExample, LonExample, PointSeparator, tieLat, tieLon).s

\* Point.String()
PointString(p, tieLat, tieLon) ==
    PointStringOf(PointFormat(p, LatExample, LonExample, PointSeparator, tieLat, tieLon))

(***************************************************************************)
(* Inputs.  The numbers are those the tests use (48, 33, 27, 5749, 98, 120) *)
(* and the values at and beyond each limit (90, 91, 180, 181, 60).         *)
(***************************************************************************)
\* a number with no more fraction digits than the model's values hold
FracOK(n) == IndexAnyMark(n) = 0 \/ Len(n) - IndexAnyMark(n) <= MaxFrac

SgnAlts == {<<>>, <<"+">>, <<"-">>}

LocAlts == {<<>>, <<"N">>, <<"S">>, <<"E">>, <<"W">>}

DegAlts ==
    {n \in {
       <<"4", "8">>, <<"0", "4", "8">>, <<"9", "0">>, <<"9", "1">>,
       <<"1", "8", "0">>, <<"1", "8", "1">>, <<"4", "8", ".", "5">>, <<"9", "1", ",", "2", "5">>,
       <<"4", "8", ".", "1", "2", "5">>} : FracOK(n)}

MinAlts ==
    {n \in {
       <<"3", "3">>, <<"0", "3">>, <<"5", "9">>, <<"6", "0">>,
       <<"3", "3", ".", "5">>, <<"5", "9", ",", "9", "6">>, <<"6", "0", ".", "5">>, <<"5", "7", "4", "9">>,
       <<"5", "7", "6", "0">>, <<"6", "0", "4", "9">>, <<"3", "3", ".", "1", "2", "5">>,
       <<"5", "7", "4">>, <<"5", "7", "4", "9", "0">>} : FracOK(n)}

\* the minutes of a string that goes on with seconds
MinBeforeSec ==
    {<<"3", "3">>, <<"6", "0">>, <<"3", "3", ".", "5">>, <<"6", "0", ".", "5">>,
     <<"5", "7", "4", "9">>}

SecAlts ==
    {n \in {
       <<"2", "7">>, <<"0", "7">>, <<"6", "0">>, <<"2", "6", ".", "5">>,
       <<"5", "9", ",", "9", "6">>, <<"6", "0", ".", "5">>, <<"2", "6", ".", "1", "2", "5">>} : FracOK(n)}

\* the separators after degrees and minutes of a string of degrees and minutes
MinDecStyles == {<<<<"-">>, <<>>>>, <<<<DegSign>>, <<"'">>>>, <<<<"-">>, <<"'">>>>}

\* the separators after degrees, minutes and seconds
DMSStyles == {<<<<"-">>, <<"-">>, <<>>>>, <<<<DegSign>>, <<"'">>, <<"\"">>>>}

DegDecBodies == {d \o s : d \in DegAlts, s \in {<<>>, <<" ">>, <<DegSign>>}}

MinDecBodies == {d \o st[1] \o m \o st[2] : d \in DegAlts, m \in MinAlts, st \in MinDecStyles}

DMSBodies ==
    {d \o st[1] \o m \o st[2] \o s \o st[3] :
        d \in DegAlts, m \in MinBeforeSec, s \in SecAlts, st \in DMSStyles}

\* strings built by the grammar: sign, numbers with their separators, letter
StructTexts ==
    {sg \o b \o l : sg \in SgnAlts, b \in DegDecBodies \cup MinDecBodies \cup DMSBodies,
                    l \in LocAlts}

\* the characters of the free-form inputs: a digit, a space, a separator, a
\* decimal mark, a location letter and a character the pattern knows nothing of
Alphabet == {"4", " ", "-", ".", "N", "x"}

RECURSIVE StringsUpTo(_)
\* every string over Alphabet of at most n characters
StringsUpTo(n) ==
    IF n = 0 THEN {<<>>}
    ELSE LET shorter == StringsUpTo(n - 1)
         IN  shorter \cup {Append(s, c) : s \in shorter, c \in Alphabet}

FreeTexts == StringsUpTo(MaxLen)

\* the arguments of ParseCoord
CoordTexts == StructTexts \cup FreeTexts

(***************************************************************************)
(* Values and examples for Coord.Format.                                   *)
(***************************************************************************)
\* d degrees m minutes s seconds and f units of 1/100 second, in units of 1/Scale
DMSValue(d, m, s, f) == ((d * 3600 + m * 60 + s) * 100 + f) * Pow10(MaxFrac - 2)

\* magnitudes: zero, the tests' values, values that round up to the next
\* minute and degree, and the values at and beyond each limit
Magnitudes ==
    {DMSValue(0, 0, 0, 0), DMSValue(48, 33, 27, 0), DMSValue(48, 59, 57, 60),
     DMSValue(89, 59, 59, 70), DMSValue(90, 0, 0, 0), DMSValue(91, 0, 0, 0),
     DMSValue(120, 57, 49, 0), DMSValue(180, 0, 0, 0), DMSValue(181, 0, 0, 0)}

Coords == {[Value |-> sg * v, Loc |-> l] : sg \in {1, -1}, v \in Magnitudes, l \in {None, Lat, Lon}}

ExampleBodies ==
    {<<"4", "8">>, <<"0", "4", "8">>, <<"4", "8", ".", "5">>, <<"4", "8", ",", "2", "5">>,
     <<"4", "8", " ">>,
     <<"4", "8", "-", "3", "3">>, <<"0", "4", "8", "-", "3", "3", ".", "0">>,
     <<"4", "8", DegSign, "3", "3", ",", "2", "5", "'">>,
     <<"4", "8", "-", "3", "3", "-", "2", "7">>,
     <<"4", "8", DegSign, "3", "3", "'", "2", "7", "\"">>,
     <<"0", "4", "8", DegSign, "3", "3", "'", "2", "7", ".", "5", "\"">>,
     <<"1", "2", "0", "-", "5", "7", "4", "9">>}

\* examples the pattern matches and getCoord rejects: minutes and seconds of
\* 60, degrees beyond both limits, a decimal mark in degrees before minutes
RejectedBodies ==
    {<<"4", "8", "-", "6", "0">>, <<"4", "8", "-", "3", "3", "-", "6", "0">>, <<"1", "8", "1">>,
     <<"4", "8", ".", "5", "-", "3", "3">>}

\* examples no single coordinate matches
BadExamples == {<<>>, <<"x">>, <<"4", "8", "x">>, <<"4", "8", "N", " ", "4", "9", "E">>}

Examples ==
    {sg \o b \o l : sg \in SgnAlts, b \in ExampleBodies \cup RejectedBodies,
                    l \in {<<>>, <<"N">>, <<"S">>, <<"E">>}}
        \cup BadExamples

(***************************************************************************)
(* Values for Coord.String, and points and arguments for Point.Format and  *)
(* Point.String.  A value beyond the bounds of its location is a whole     *)
(* number of units of 1/100 degree, as FormatFloat requires.               *)
(***************************************************************************)
\* d degrees and h units of 1/100 degree, in units of 1/Scale
DecValue(d, h) == (d * 100 + h) * 36 * Pow10(MaxFrac)

StringMagnitudes ==
    Magnitudes \cup {DecValue(48, 55), DecValue(90, 50), DecValue(120, 25), DecValue(180, 50)}

StringCoords ==
    {c \in [Value : {sg * v : sg \in {1, -1}, v \in StringMagnitudes}, Loc : {None, Lat, Lon}] :
        c.Value % 3600 = 0 \/ ~outOfBounds(c.Loc, Abs(c.Value))}

\* the latitude side of a point: in range, at the limit and beyond it, with
\* the location set, unset and set to the other axis
PointLats ==
    {[Value |-> DMSValue(48, 33, 27, 0), Loc |-> Lat], [Value |-> -DMSValue(48, 33, 27, 0), Loc |-> Lat],
     [Value |-> DecValue(48, 55), Loc |-> None], [Value |-> DMSValue(48, 59, 57, 60), Loc |-> Lat],
     [Value |-> DecValue(90, 0), Loc |-> Lat], [Value |-> -DecValue(91, 0), Loc |-> Lat],
     [Value |-> DecValue(91, 0), Loc |-> None], [Value |-> DecValue(120, 25), Loc |-> Lon]}

\* the longitude side of a point
PointLons ==
    {[Value |-> DMSValue(120, 57, 49, 0), Loc |-> Lon], [Value |-> -DMSValue(120, 57, 49, 0), Loc |-> Lon],
     [Value |-> DecValue(48, 55), Loc |-> None], [Value |-> DecValue(180, 0), Loc |-> Lon],
     [Value |-> DecValue(181, 0), Loc |-> Lon], [Value |-> -DecValue(181, 0), Loc |-> None],
     [Value |-> DecValue(48, 55), Loc |-> Lat], [Value |-> DecValue(91, 0), Loc |-> Lat]}

Points == {[Lat |-> a, Lon |-> b] : a \in PointLats, b \in PointLons}

LatFmts ==
    {LatExample, <<"4", "8", DegSign, "3", "3", "'", "2", "7", "\"", "N">>, <<"4", "8", ".", "5">>,
     <<"x">>}

LonFmts == {LonExample, <<"1", "2", "0", "-", "5", "7", "4", "9", "E">>, <<"4", "8", "E", "x">>}

PointFmts ==
    {[latFmt |-> a, lonFmt |-> b, separator |-> s] :
        a \in LatFmts, b \in LonFmts, s \in {PointSeparator, <<";", " ">>}}

(***************************************************************************)
(* Inputs of ParsePoint: one, two or three coordinates and what is between *)
(* them.                                                                   *)
(***************************************************************************)
PointParts ==
    {<<"4", "8", "N">>, <<"4", "8", ".", "5", "N">>, <<"9", "0", "N">>, <<"9", "1", "S">>,
     <<"4", "8", "-", "3", "3", "N">>, <<"4", "8", "-", "6", "0", "S">>,
     <<"4", "8", "-", "3", "3", "-", "2", "7", "N">>,
     <<"1", "2", "0", "E">>, <<"1", "2", "0", ".", "5", "W">>, <<"1", "8", "1", "E">>,
     <<"1", "2", "0", "-", "5", "7", "E">>, <<"1", "2", "0", "-", "5", "7", "4", "9", "E">>,
     <<"1", "2", "0", DegSign, "5", "7", "'", "4", "9", "\"", "W">>,
     <<"4", "8">>, <<"-", "4", "8", "N">>, <<"x">>,
     <<"4", "8", "-", "3", "3", "2", "7", "N">>,
     <<"4", "8", DegSign, "3", "3", ".", "4", "4", "'", "E">>}

PointSeps == {<<";", " ">>, <<" ">>, <<",", " ">>, <<"x">>}

\* what may stand before the first and after the second coordinate
PointWraps == {<<>>, <<" ">>, <<"x">>, <<"x", " ">>, <<" ", "x">>}

\* a latitude and a longitude between two such strings
WrappedPoints ==
    {g1 \o a \o <<";", " ">> \o b \o g2 :
        g1 \in PointWraps, g2 \in PointWraps,
        a \in {<<"4", "8", "N">>, <<"4", "8", "-", "3", "3", "N">>},
        b \in {<<"1", "2", "0", "E">>, <<"1", "2", "0", "-", "5", "7", "E">>}}

PointTexts ==
    PointParts
        \cup {a \o s \o b : a \in PointParts, s \in PointSeps, b \in PointParts}
        \cup {a \o s \o b \o s \o c : a \in PointParts, s \in PointSeps,
                                       b \in {<<"1", "2", "0", "E">>, <<"x">>},
                                       c \in {<<"4", "8", "N">>, <<"1", "2", "0", "E">>}}
        \cup StringsUpTo(MaxLen - 1)
        \cup WrappedPoints

(***************************************************************************)
(* Arguments of StringToPoint: a latitude and a longitude of each class,   *)
(* strings with characters the pattern does not match, a string with two   *)
(* coordinates, the empty string, and coordinates getCoord rejects.        *)
(***************************************************************************)
LatArgs ==
    {<<"4", "8", "N">>, <<"4", "8", "-", "3", "3", "N">>,
     <<"4", "8", "-", "3", "3", "-", "2", "7", "N">>, <<"4", "8", "-", "3", "3", "2", "7", "S">>,
     <<"x", "4", "8", "N">>, <<"4", "8", "N", " ", "1", "2", "0", "E">>, <<>>,
     <<"1", "2", "0", "E">>, <<"4", "8">>, <<"9", "1", "N">>, <<"-", "4", "8", "N">>}

LonArgs ==
    {<<"1", "2", "0", "E">>, <<"1", "2", "0", "-", "5", "7", "E">>,
     <<"1", "2", "0", "-", "5", "7", "4", "9", "W">>, <<"1", "2", "0", "E", "x">>, <<>>,
     <<"4", "8", "N">>, <<"1", "2", "0">>, <<"1", "8", "1", "E">>,
     <<"4", "8", "N", " ", "1", "2", "0", "E">>}

(***************************************************************************)
(* Concurrent calls.  Each goroutine makes one call of ParseCoord or of    *)
(* Coord.Format; the call is a sequence of steps on the coordGroups that   *)
(* newCoordGroups returned, which the steps of getCoord write to.          *)
(***************************************************************************)
Goroutines == {"g1", "g2"}

\* the strings the concurrent calls parse: both decimal marks, which getCoord
\* rewrites in its coordGroups, and one string for each error
ConcTexts ==
    {<<"4", "8", "N">>, <<"4", "8", ",", "5">>, <<"4", "8", "-", "3", "3", ",", "5", "S">>,
     <<"1", "2", "0", DegSign, "5", "7", "'", "4", "9", ",", "5", "\"", "E">>,
     <<"-", "4", "8", "N">>, <<"9", "1", "N">>, <<"4", "8", "-", "6", "0", "N">>, <<"x">>}

ConcExamples == {LatExample, <<"0", "4", "8", ",", "2", "5">>, <<"x">>}

ConcCoords ==
    {[Value |-> DecValue(48, 55), Loc |-> Lat], [Value |-> -DMSValue(120, 57, 49, 0), Loc |-> Lon],
     [Value |-> DecValue(91, 0), Loc |-> Lat]}

\* a call that has not started: op(s) for ParseCoord, c.op(s) for Format
NewCall(op, s, c, tie) ==
    [op |-> op, s |-> s, c |-> c, tie |-> tie, pc |-> "start", loc |-> None, deg |-> 0,
     min |-> 0, coord |-> ZeroCoord, out |-> <<>>, err |-> Nil]

CallInputs ==
    {NewCall("ParseCoord", s, ZeroCoord, 0) : s \in ConcTexts}
        \cup {NewCall("Format", ex, c, tie) : ex \in ConcExamples, c \in ConcCoords,
                                                tie \in {0, 1}}

\* one variable for every call: what C23 tells from the code
cgOf_shared(g) == "g1"

\* the coordGroups of a call: the local variable cg of the goroutine
cgOf(g) == g

\* f[:idx] + "." + f[idx+1:]
withPeriod(f) == IF IndexAnyMark(f) # 0 THEN [f EXCEPT ![IndexAnyMark(f)] = "."] ELSE f

\* cg.deg after getDegrees
degAfter(cg) ==
    IF cg.deg = <<>> \/ (IndexAnyMark(cg.deg) # 0 /\ (cg.min # <<>> \/ cg.sec # <<>>))
    THEN cg.deg ELSE withPeriod(cg.deg)

\* cg.min after getMinutes
minAfter(cg) ==
    IF cg.min = <<>> \/ (IndexAnyMark(cg.min) # 0 /\ cg.sec # <<>>)
    THEN cg.min ELSE withPeriod(cg.min)

\* cg.sec after getSeconds
secAfter(cg) == withPeriod(cg.sec)

(***************************************************************************)
(* The state machine.  A call is one step: pc names the call that has      *)
(* returned, and coord, point, out and err hold its results; parsed holds   *)
(* the Coord read back from a Coord's own string.                          *)
(***************************************************************************)
NoFmts == [latFmt |-> <<>>, lonFmt |-> <<>>, separator |-> <<>>]

\* no arguments of StringToPoint
NoArgs == [lat |-> <<>>, lon |-> <<>>]

\* a string to parse as a coordinate
InitCoord ==
    /\ pc = "text"
    /\ text \in CoordTexts
    /\ example = <<>>
    /\ coord = ZeroCoord
    /\ point = ZeroPoint
    /\ fmts = NoFmts
    /\ out = <<>>
    /\ err = Nil
    /\ parsed = ZeroCoord
    /\ msg = <<>>
    /\ args = NoArgs
    /\ calls = <<>>
    /\ cgs = <<>>

\* a value and an example to format it by
InitFormat ==
    /\ pc = "coord"
    /\ text = <<>>
    /\ example \in Examples
    /\ coord \in Coords
    /\ point = ZeroPoint
    /\ fmts = NoFmts
    /\ out = <<>>
    /\ err = Nil
    /\ parsed = ZeroCoord
    /\ msg = <<>>
    /\ args = NoArgs
    /\ calls = <<>>
    /\ cgs = <<>>

\* a string to parse as a point
InitPoint ==
    /\ pc = "text"
    /\ text \in PointTexts
    /\ example = <<>>
    /\ coord = ZeroCoord
    /\ point = ZeroPoint
    /\ fmts = NoFmts
    /\ out = <<>>
    /\ err = Nil
    /\ parsed = ZeroCoord
    /\ msg = <<>>
    /\ args = NoArgs
    /\ calls = <<>>
    /\ cgs = <<>>

\* coord, err = ParseCoord(text)
DoParseCoord ==
    /\ pc = "text"
    /\ \E r \in {ParseCoord(text)} :
          /\ coord' = r.coord
          /\ err' = r.err
          /\ msg' = ParseCoordMsg(r.err, text)
    /\ pc' = "ParseCoord"
    /\ UNCHANGED <<text, example, point, fmts, out, parsed, args, calls, cgs>>

\* out, err = coord.Format(text), for the coord ParseCoord(text) returned
DoFormatByText ==
    /\ pc = "ParseCoord"
    /\ err = Nil
    /\ \E tie \in {0, 1} :
          \E r \in {CoordFormat(coord, text, tie)} :
              /\ out' = r.s
              /\ err' = r.err
              /\ msg' = CoordFormatMsg(r.err, coord, text)
    /\ example' = text
    /\ pc' = "Format"
    /\ UNCHANGED <<text, coord, point, fmts, parsed, args, calls, cgs>>

\* out, err = coord.Format(example)
DoFormat ==
    /\ pc = "coord"
    /\ \E tie \in {0, 1} :
          \E r \in {CoordFormat(coord, example, tie)} :
              /\ out' = r.s
              /\ err' = r.err
              /\ msg' = CoordFormatMsg(r.err, coord, example)
    /\ pc' = "Format"
    /\ UNCHANGED <<text, example, coord, point, fmts, parsed, args, calls, cgs>>

\* point, err = ParsePoint(text)
DoParsePoint ==
    /\ pc = "text"
    /\ \E r \in {ParsePoint(text)} :
          /\ point' = r.point
          /\ err' = r.err
          /\ msg' = ParsePointMsg(r.err, text)
    /\ pc' = "ParsePoint"
    /\ UNCHANGED <<text, example, coord, fmts, out, parsed, args, calls, cgs>>

\* a value to take the default view of
InitString ==
    /\ pc = "coord"
    /\ text = <<>>
    /\ example = <<>>
    /\ coord \in StringCoords
    /\ point = ZeroPoint
    /\ fmts = NoFmts
    /\ out = <<>>
    /\ err = Nil
    /\ parsed = ZeroCoord
    /\ msg = <<>>
    /\ args = NoArgs
    /\ calls = <<>>
    /\ cgs = <<>>

\* a point and the arguments of Point.Format
InitPointOut ==
    /\ pc = "point"
    /\ text = <<>>
    /\ example = <<>>
    /\ coord = ZeroCoord
    /\ point \in Points
    /\ fmts \in PointFmts
    /\ out = <<>>
    /\ err = Nil
    /\ parsed = ZeroCoord
    /\ msg = <<>>
    /\ args = NoArgs
    /\ calls = <<>>
    /\ cgs = <<>>

\* the two arguments of StringToPoint
InitToPoint ==
    /\ pc = "args"
    /\ text = <<>>
    /\ example = <<>>
    /\ coord = ZeroCoord
    /\ point = ZeroPoint
    /\ fmts = NoFmts
    /\ out = <<>>
    /\ err = Nil
    /\ parsed = ZeroCoord
    /\ msg = <<>>
    /\ args \in [lat : LatArgs, lon : LonArgs]
    /\ calls = <<>>
    /\ cgs = <<>>

\* point, err = StringToPoint(lat, lon)
DoStringToPoint ==
    /\ pc = "args"
    /\ \E r \in {StringToPoint(args.lat, args.lon)} :
          /\ point' = r.point
          /\ err' = r.err
          /\ msg' = ParsePointMsg(r.err, args.lat \o <<";", " ">> \o args.lon)
    /\ pc' = "StringToPoint"
    /\ UNCHANGED <<text, example, coord, fmts, out, parsed, args, calls, cgs>>

\* out = coord.String()
DoCoordString ==
    /\ pc = "coord"
    /\ \E tie \in {0, 1} : out' = CoordString(coord, tie)
    /\ pc' = "String"
    /\ UNCHANGED <<text, example, coord, point, fmts, err, parsed, msg, args, calls, cgs>>

\* parsed, err = ParseCoord(out), for the out coord.String() returned
DoParseString ==
    /\ pc = "String"
    /\ \E r \in {ParseCoord(out)} :
          /\ parsed' = r.coord
          /\ err' = r.err
          /\ msg' = ParseCoordMsg(r.err, out)
    /\ pc' = "ParseString"
    /\ UNCHANGED <<text, example, coord, point, fmts, out, args, calls, cgs>>

\* out, err = point.Format(latFmt, lonFmt, separator)
DoPointFormat ==
    /\ pc = "point"
    /\ \E tieLat \in {0, 1}, tieLon \in {0, 1} :
          \E r \in {PointFormat(point, fmts.latFmt, fmts.lonFmt, fmts.separator,
                                 tieLat, tieLon)} :
              /\ out' = r.s
              /\ err' = r.err
              /\ msg' = PointFormatMsg(r.err, point, fmts.latFmt, fmts.lonFmt)
    /\ pc' = "PointFormat"
    /\ UNCHANGED <<text, example, coord, point, fmts, parsed, args, calls, cgs>>

\* out = point.String()
DoPointString ==
    /\ pc = "point"
    /\ \E tieLat \in {0, 1}, tieLon \in {0, 1} : out' = PointString(point, tieLat, tieLon)
    /\ pc' = "PointString"
    /\ UNCHANGED <<text, example, coord, point, fmts, err, parsed, msg, args, calls, cgs>>

NextCoord == DoParseCoord \/ DoFormatByText

NextFormat == DoFormat

NextPoint == DoParsePoint

NextString == DoCoordString \/ DoParseString

NextPointOut == DoPointFormat \/ DoPointString

\* ParseCoord, then Format by the parsed string
SpecCoord == InitCoord /\ [][NextCoord]_vars

\* Coord.Format
SpecFormat == InitFormat /\ [][NextFormat]_vars

\* ParsePoint
SpecPoint == InitPoint /\ [][NextPoint]_vars

\* Coord.String, then ParseCoord of the string
SpecString == InitString /\ [][NextString]_vars

\* Point.Format and Point.String
SpecPointOut == InitPointOut /\ [][NextPointOut]_vars

\* two goroutines, each about to make a call
InitConcurrent ==
    /\ pc = "go"
    /\ text = <<>>
    /\ example = <<>>
    /\ coord = ZeroCoord
    /\ point = ZeroPoint
    /\ fmts = NoFmts
    /\ out = <<>>
    /\ err = Nil
    /\ parsed = ZeroCoord
    /\ msg = <<>>
    /\ args = NoArgs
    /\ calls \in [Goroutines -> CallInputs]
    /\ cgs = [g \in Goroutines |-> EmptyGroups]

\* the call of g returns
Return(g, c, o, e) ==
    calls' = [calls EXCEPT ![g].pc = "done", ![g].coord = c, ![g].out = o, ![g].err = e]

\* cg, err := newCoordGroups(s), in ParseCoord and in Coord.Format
CallNewCoordGroups(g) ==
    /\ calls[g].pc = "start"
    /\ \E r \in {newCoordGroups(calls[g].s)} :
          /\ cgs' = [cgs EXCEPT ![cgOf(g)] = r.cg]
          /\ IF r.err # Nil THEN Return(g, ZeroCoord, <<>>, r.err)
             ELSE calls' = [calls EXCEPT ![g].pc = IF calls[g].op = "Format" THEN "format"
                                                    ELSE "getCoord"]
    /\ UNCHANGED <<pc, text, example, coord, point, fmts, out, err, parsed, msg, args>>

\* getCoord: checkSign, getLocation and getDegrees
CallGetDegrees(g) ==
    /\ calls[g].pc = "getCoord"
    /\ \E cg \in {cgs[cgOf(g)]} :
          IF checkSign(cg) # Nil
          THEN Return(g, ZeroCoord, <<>>, checkSign(cg)) /\ UNCHANGED cgs
          ELSE IF getLocation(cg).err # Nil
          THEN Return(g, ZeroCoord, <<>>, getLocation(cg).err) /\ UNCHANGED cgs
          ELSE \E d \in {getDegrees(cg, getLocation(cg).loc)} :
                  /\ cgs' = [cgs EXCEPT ![cgOf(g)].deg = degAfter(cg)]
                  /\ IF d.err # Nil THEN Return(g, ZeroCoord, <<>>, d.err)
                     ELSE calls' = [calls EXCEPT ![g].pc = "getMinutes",
                                                 ![g].loc = getLocation(cg).loc,
                                                 ![g].deg = d.v]
    /\ UNCHANGED <<pc, text, example, coord, point, fmts, out, err, parsed, msg, args>>

\* getCoord: getMinutes
CallGetMinutes(g) ==
    /\ calls[g].pc = "getMinutes"
    /\ \E cg \in {cgs[cgOf(g)]} :
          \E m \in {getMinutes(cg)} :
              /\ cgs' = [cgs EXCEPT ![cgOf(g)].min = minAfter(cg)]
              /\ IF m.err # Nil THEN Return(g, ZeroCoord, <<>>, m.err)
                 ELSE calls' = [calls EXCEPT ![g].pc = "getSeconds", ![g].min = m.v]
    /\ UNCHANGED <<pc, text, example, coord, point, fmts, out, err, parsed, msg, args>>

\* getCoord: getSeconds, the value and its sign
CallGetSeconds(g) ==
    /\ calls[g].pc = "getSeconds"
    /\ \E cg \in {cgs[cgOf(g)]} :
          \E s \in {getSeconds(cg)} :
              /\ cgs' = [cgs EXCEPT ![cgOf(g)].sec = secAfter(cg)]
              /\ IF s.err # Nil THEN Return(g, ZeroCoord, <<>>, s.err)
                 ELSE \E value \in {calls[g].deg * 3600 + calls[g].min * 60 + s.v} :
                        Return(g,
                               [Value |-> IF cg.sgn = <<"-">> \/ cg.loc = <<"S">>
                                             \/ cg.loc = <<"W">>
                                          THEN -value ELSE value,
                                Loc |-> calls[g].loc],
                               <<>>, Nil)
    /\ UNCHANGED <<pc, text, example, coord, point, fmts, out, err, parsed, msg, args>>

\* Coord.Format after newCoordGroups: the bounds and the rendering
CallFormat(g) ==
    /\ calls[g].pc = "format"
    /\ \E cg \in {cgs[cgOf(g)]} :
          IF outOfBounds(effectiveLoc(calls[g].c, cg), Abs(calls[g].c.Value))
          THEN Return(g, ZeroCoord, <<>>, ErrOutOfRange)
          ELSE Return(g, ZeroCoord, render(calls[g].c, cg, calls[g].tie), Nil)
    /\ UNCHANGED <<pc, text, example, coord, point, fmts, out, err, parsed, msg, args, cgs>>

NextConcurrent ==
    \E g \in Goroutines :
        \/ CallNewCoordGroups(g)
        \/ CallGetDegrees(g)
        \/ CallGetMinutes(g)
        \/ CallGetSeconds(g)
        \/ CallFormat(g)

\* concurrent calls of ParseCoord and Coord.Format, in any interleaving
SpecConcurrent == InitConcurrent /\ [][NextConcurrent]_vars

NextToPoint == DoStringToPoint

\* StringToPoint
SpecToPoint == InitToPoint /\ [][NextToPoint]_vars

\* the arguments of a call of any of the four operations that return an
\* error: a string for ParseCoord and ParsePoint, a Coord and an example, or a
\* Point and its arguments
InitCalls == InitPoint \/ InitFormat \/ InitPointOut

NextCalls == DoParseCoord \/ DoParsePoint \/ DoFormat \/ DoPointFormat

\* ParseCoord, ParsePoint, Coord.Format and Point.Format
SpecCalls == InitCalls /\ [][NextCalls]_vars

(***************************************************************************)
(* What the claims speak of, for the state after ParseCoord(text).         *)
(***************************************************************************)
\* every occurrence of the pattern in s, left to right
Occurrences(s) == FindAllStringSubmatch(s, Len(s) + 1)

\* the number of characters an occurrence captures
SpanLen(m) ==
    Len(m.ws1) + Len(m.sgn) + Len(m.deg) + Len(m.dsr) + Len(m.min) + Len(m.msr)
        + Len(m.sec) + Len(m.ssr) + Len(m.loc) + Len(m.ws2)

\* one occurrence, and all of s in it
CoversAll(s) == Len(Occurrences(s)) = 1 /\ SpanLen(Occurrences(s)[1]) = Len(s)

\* the fields of an occurrence, the halves of a compact token apart
FieldsOf(m) == normalizeCompact(coordGroupsFromMatch(m).cg)

TextFields == FieldsOf(Occurrences(text)[1])

SignLocConflict(cg) == cg.sgn # <<>> /\ cg.loc # <<>>

DegMarkConflict(cg) == IndexAnyMark(cg.deg) # 0 /\ (cg.min # <<>> \/ cg.sec # <<>>)

MinMarkConflict(cg) == IndexAnyMark(cg.min) # 0 /\ cg.sec # <<>>

\* the value of a field, in units of 1/10^MaxFrac; an absent field is 0
FieldValue(f) == IF f = <<>> THEN 0 ELSE ParseFloat(f)

\* the limit of the degrees by the letter, in units of 1/10^MaxFrac
DegLimit(cg) ==
    IF cg.loc = <<"N">> \/ cg.loc = <<"S">> THEN LatLimit * Pow10(MaxFrac)
    ELSE LonLimit * Pow10(MaxFrac)

SixtyOrMore(cg) ==
    \/ FieldValue(cg.min) >= MinSecLimit * Pow10(MaxFrac)
    \/ FieldValue(cg.sec) >= MinSecLimit * Pow10(MaxFrac)

\* ParseCoord(text) has returned, and text is one whole occurrence
ParsedWhole == pc = "ParseCoord" /\ CoversAll(text)

(***************************************************************************)
(* C1.  Round trip.                                                        *)
(***************************************************************************)
\* a string written the way Format writes: no whitespace, no plus sign, and
\* no leading zero in minutes or seconds outside a compact token
Canonical(s) ==
    LET m == Occurrences(s)[1]
        compact == coordGroupsFromMatch(m).cg.compact
    IN  /\ CoversAll(s)
        /\ \A i \in 1..Len(s) : s[i] \notin Spaces
        /\ m.sgn # <<"+">>
        /\ compact \/ m.min = <<>> \/ Len(m.min) = 1 \/ Head(m.min) # "0"
        /\ m.sec = <<>> \/ Len(m.sec) = 1 \/ Head(m.sec) # "0"

\* C1: for every string s that ParseCoord accepts, Format of the parsed Coord
\* with s as the template succeeds and returns exactly s.  Stated here for the
\* strings that are written the way Format writes, where the claim is not
\* refuted by a mere difference of spelling.
C1_RoundTrip ==
    (pc = "Format" /\ example = text /\ Canonical(text)) => (err = Nil /\ out = text)

(***************************************************************************)
(* C2, C3, C5.  Coord.Format.                                              *)
(***************************************************************************)
ExampleGroups == newCoordGroups(example)

Formatted == pc = "Format" /\ ExampleGroups.err = Nil

\* the letter of a value by its effective location
LetterFor(c, cg) ==
    IF effectiveLoc(c, cg) = Lat THEN (IF c.Value < 0 THEN "S" ELSE "N")
    ELSE (IF c.Value < 0 THEN "W" ELSE "E")

\* the value is strictly inside the bounds of its effective location
StrictlyInside(c, cg) ==
    /\ effectiveLoc(c, cg) = Lat => Abs(c.Value) < LatLimit * Scale
    /\ effectiveLoc(c, cg) = Lon => Abs(c.Value) < LonLimit * Scale

\* C2: Format with a template that has a hemisphere letter returns a string
\* whose letter is S or W for a negative value and N or E for a non-negative
\* one, and the string has no '+' or '-' sign in front.
C2_LetterAndNoSign ==
    (/\ Formatted
     /\ err = Nil
     /\ StrictlyInside(coord, ExampleGroups.cg)
     /\ ExampleGroups.cg.loc # <<>>)
        => /\ out # <<>>
           /\ out[Len(out)] = LetterFor(coord, ExampleGroups.cg)
           /\ Head(out) \notin SignChars

\* C3: Format of a negative value with a template that has no hemisphere
\* letter returns a string that starts with '-', whatever the class of the
\* template.
C3_SignedOutput ==
    (/\ Formatted
     /\ err = Nil
     /\ StrictlyInside(coord, ExampleGroups.cg)
     /\ coord.Value < 0
     /\ ExampleGroups.cg.loc = <<>>)
        => (out # <<>> /\ Head(out) = "-")

\* C5: Format fails with ErrOutOfRange whenever the effective location is
\* Latitude and |Value| is not below 90, or Longitude and |Value| is not below
\* 180.
C5_FormatRange ==
    (/\ Formatted
     /\ \/ /\ effectiveLoc(coord, ExampleGroups.cg) = Lat
           /\ Abs(coord.Value) >= LatLimit * Scale
        \/ /\ effectiveLoc(coord, ExampleGroups.cg) = Lon
           /\ Abs(coord.Value) >= LonLimit * Scale)
        => err = ErrOutOfRange

(***************************************************************************)
(* C4, C6, C7, C8.  The checks of getCoord and their order.                *)
(***************************************************************************)
\* C4: ParseCoord fails with ErrOutOfRange whenever the degrees are not below
\* their limit, 90 with N or S and 180 otherwise.  Stated for the strings in
\* which no earlier check (sign with letter, decimal mark in degrees before
\* minutes) fails.
C4_DegreesBelowLimit ==
    (/\ ParsedWhole
     /\ ~SignLocConflict(TextFields)
     /\ ~DegMarkConflict(TextFields)
     /\ FieldValue(TextFields.deg) >= DegLimit(TextFields))
        => err = ErrOutOfRange

\* C6: ParseCoord of a string that matches the grammar and has both a sign
\* and a hemisphere letter fails with ErrInvalidCoord, whatever its numbers
\* are.
C6_SignLetterConflict ==
    (ParsedWhole /\ SignLocConflict(TextFields)) => err = ErrInvalidCoord

\* a sign with a letter, and degrees, minutes or seconds out of range
C6_Witness ==
    /\ ParsedWhole
    /\ SignLocConflict(TextFields)
    /\ ~DegMarkConflict(TextFields) /\ ~MinMarkConflict(TextFields)
    /\ FieldValue(TextFields.deg) > DegLimit(TextFields) \/ SixtyOrMore(TextFields)
    /\ err = ErrInvalidCoord

C8_MinSecBelow60 ==
    ParsedWhole =>
        /\ SixtyOrMore(TextFields) => err = ErrOutOfRange
        /\ err = Nil => ~SixtyOrMore(TextFields)

\* C8: ParseCoord fails whenever minutes or seconds are 60 or more, the halves
\* of a compact token included: with ErrOutOfRange, unless the string has a
\* sign with a letter, a decimal mark in degrees before minutes, or a decimal
\* mark in minutes before seconds, and then with ErrOutOfRange or
\* ErrInvalidCoord; a successful parse has minutes and seconds below 60.
C8_MinSecBelow60_Amended ==
    ParsedWhole =>
        /\ SixtyOrMore(TextFields) =>
              /\ err \in {ErrOutOfRange, ErrInvalidCoord}
              /\ err = ErrInvalidCoord =>
                    \/ SignLocConflict(TextFields)
                    \/ DegMarkConflict(TextFields)
                    \/ MinMarkConflict(TextFields)
        /\ err = Nil => ~SixtyOrMore(TextFields)

\* a compact token whose seconds are 60, and degrees within their limit
C8_Witness ==
    /\ ParsedWhole
    /\ TextFields.compact
    /\ FieldValue(TextFields.sec) = MinSecLimit * Pow10(MaxFrac)
    /\ FieldValue(TextFields.min) < MinSecLimit * Pow10(MaxFrac)
    /\ FieldValue(TextFields.deg) < DegLimit(TextFields)
    /\ err = ErrOutOfRange

(***************************************************************************)
(* C9, C10.  The number of occurrences.                                    *)
(***************************************************************************)
\* the characters the pattern can capture
GrammarChars ==
    Spaces \cup DigitChars \cup DecMarks \cup SignChars \cup LocChars
        \cup DegSeps \cup MinSeps \cup SecSeps

\* C9: ParseCoord succeeds only if its input has exactly one occurrence of
\* the grammar and the occurrence covers the whole input; no occurrence, two
\* or more, or a character outside the occurrence make it fail with
\* ErrInvalidString, and it fails with that error for no other reason.
C9_OneWholeOccurrence ==
    pc = "ParseCoord" =>
        /\ ~CoversAll(text) <=> err = ErrInvalidString
        /\ (\E i \in 1..Len(text) : text[i] \notin GrammarChars) => err = ErrInvalidString
        /\ err = Nil => CoversAll(text)

\* one occurrence and a character it does not capture
C9_Witness ==
    /\ pc = "ParseCoord"
    /\ Len(Occurrences(text)) = 1
    /\ SpanLen(Occurrences(text)[1]) < Len(text)
    /\ getCoord(FieldsOf(Occurrences(text)[1])).err = Nil
    /\ err = ErrInvalidString

RECURSIVE SpansFrom(_, _)
\* where each occurrence found from position p on starts and ends
SpansFrom(s, p) ==
    IF ~(\E i \in p..Len(s) : MatchAt(s, i).ok) THEN <<>>
    ELSE <<CHOOSE x \in p..Len(s) : FirstMatchAt(s, p, x)>>
             \o SpansFrom(s, MatchAt(s, CHOOSE x \in p..Len(s) : FirstMatchAt(s, p, x)).end)

\* the positions where the occurrences of s start, left to right
Starts(s) == SpansFrom(s, 1)

\* characters before the first occurrence or after the second
OuterGarbage(s) ==
    \/ Starts(s)[1] > 1
    \/ MatchAt(s, Starts(s)[2]).end <= Len(s)

\* C11: ParsePoint of an input with two occurrences and characters other
\* than whitespace before the first or after the second fails with
\* ErrInvalidString.
C11_PointOuterGarbage ==
    (pc = "ParsePoint" /\ Len(Starts(text)) = 2 /\ OuterGarbage(text))
        => err = ErrInvalidString

(***************************************************************************)
(* C12, C13.  The two occurrences of a point.                              *)
(***************************************************************************)
\* the k-th occurrence of text, as matched
TextOccurrence(k) == MatchAt(text, Starts(text)[k]).groups

\* the k-th occurrence of text, evaluated on its own
OccurrenceCoord(k) == getCoord(FieldsOf(TextOccurrence(k)))

\* ParsePoint(text) has returned, text has two occurrences and each is a
\* coordinate getCoord accepts
ParsedTwoValid ==
    /\ pc = "ParsePoint"
    /\ Len(Starts(text)) = 2
    /\ OccurrenceCoord(1).err = Nil
    /\ OccurrenceCoord(2).err = Nil

\* a minutes field that is a compact token: four digits, no seconds, a letter
IsCompact(m) ==
    /\ Len(m.min) = 4
    /\ \A i \in 1..Len(m.min) : m.min[i] \in DigitChars
    /\ m.sec = <<>>
    /\ m.loc # <<>>

\* the class of an occurrence as the README names it
ClassOf(m) ==
    IF m.sec # <<>> \/ IsCompact(m) THEN "DMS"
    ELSE IF m.min # <<>> THEN "MinDec"
    ELSE "DegDec"

TextMatch == Occurrences(text)[1]

\* a number of whole minutes or seconds, in units of 1/Scale degree
Whole(digits, unitsPerOne) == DigitsVal(digits) * Pow10(MaxFrac) * unitsPerOne

\* degrees + minutes/60 + seconds/3600 of a compact occurrence: the first two
\* digits of the token are minutes, the last two seconds
SplitValue(m) ==
    FieldValue(m.deg) * 3600 + Whole(SubSeq(m.min, 1, 2), 60) + Whole(SubSeq(m.min, 3, 4), 1)

\* degrees + minutes/60 + seconds/3600 of the fields as matched
UnsplitValue(m) == FieldValue(m.deg) * 3600 + FieldValue(m.min) * 60 + FieldValue(m.sec)

\* C14: the minutes field is split into two digits of minutes and two of
\* seconds exactly when it is four digits without a decimal mark, seconds are
\* absent and a hemisphere letter is present; in every other case it is
\* evaluated as it stands, so that a value of 60 or more is an error.
C14_CompactSplit ==
    ParsedWhole =>
        /\ (IsCompact(TextMatch) /\ err = Nil) => Abs(coord.Value) = SplitValue(TextMatch)
        /\ (IsCompact(TextMatch) /\ Whole(SubSeq(TextMatch.min, 1, 2), 1) >= MinSecLimit * Pow10(MaxFrac))
              => err # Nil
        /\ (IsCompact(TextMatch) /\ Whole(SubSeq(TextMatch.min, 3, 4), 1) >= MinSecLimit * Pow10(MaxFrac))
              => err # Nil
        /\ (~IsCompact(TextMatch) /\ err = Nil) => Abs(coord.Value) = UnsplitValue(TextMatch)
        /\ (~IsCompact(TextMatch) /\ FieldValue(TextMatch.min) >= MinSecLimit * Pow10(MaxFrac))
              => err # Nil

\* a compact token parsed as minutes and seconds
C14_Witness ==
    /\ ParsedWhole
    /\ IsCompact(TextMatch)
    /\ err = Nil
    /\ coord.Loc = Lon
    /\ Abs(coord.Value) = SplitValue(TextMatch)
    /\ SplitValue(TextMatch) # FieldValue(TextMatch.deg) * 3600

\* whether an occurrence stands for a negative value
IsNegative(m) == m.sgn = <<"-">> \/ m.loc = <<"S">> \/ m.loc = <<"W">>

\* the location an occurrence's letter stands for
LocOf(m) ==
    IF m.loc \in {<<"N">>, <<"S">>} THEN Lat
    ELSE IF m.loc \in {<<"E">>, <<"W">>} THEN Lon
    ELSE None

\* C15: for every string ParseCoord accepts, Value is degrees + minutes/60 +
\* seconds/3600, negated exactly when the sign is '-' or the letter is S or
\* W, and Loc is Lat for N or S, Lon for E or W and None without a letter.
C15_ParsedValue ==
    (ParsedWhole /\ err = Nil)
        => /\ coord.Value = (IF IsNegative(TextMatch) THEN -1 ELSE 1)
                               * (FieldValue(TextFields.deg) * 3600
                                  + FieldValue(TextFields.min) * 60
                                  + FieldValue(TextFields.sec))
           /\ coord.Loc = LocOf(TextMatch)

\* degrees, minutes and seconds of the western hemisphere
C15_Witness ==
    /\ ParsedWhole
    /\ err = Nil
    /\ TextMatch.loc = <<"W">>
    /\ FieldValue(TextFields.min) > 0
    /\ FieldValue(TextFields.sec) > 0
    /\ coord.Value < 0
    /\ coord.Loc = Lon

(***************************************************************************)
(* C16, C19.  Coord.String.                                                *)
(***************************************************************************)
\* the value is at or beyond the limit of its location
AtOrBeyond(c) ==
    \/ c.Loc = Lat /\ Abs(c.Value) >= LatLimit * Scale
    \/ c.Loc = Lon /\ Abs(c.Value) >= LonLimit * Scale

\* C16: Coord.String returns the plain decimal rendering of Value for a Lat
\* coordinate at or beyond 90 and a Lon coordinate at or beyond 180, and the
\* result of Format by the default example otherwise.
C16_StringFallback ==
    pc = "String" =>
        /\ AtOrBeyond(coord) => out = FormatFloat(coord.Value)
        /\ ~AtOrBeyond(coord) =>
              \E tie \in {0, 1} : out = CoordFormat(coord, DefaultExample(coord.Loc), tie).s

\* the value is strictly inside the range ParseCoord accepts for its location
InsideParseRange(c) ==
    IF c.Loc = Lat THEN Abs(c.Value) < LatLimit * Scale ELSE Abs(c.Value) < LonLimit * Scale

\* C19: ParseCoord(c.String()) succeeds and returns a Value within 0.1 of
\* c.Value.  Stated for the values strictly inside the range of their
\* location, which are the ones a string can be parsed back for.
C19_StringParsesBack ==
    (pc = "ParseString" /\ InsideParseRange(coord))
        => /\ err = Nil
           /\ 10 * Abs(parsed.Value - coord.Value) <= Scale

(***************************************************************************)
(* C17, C18, C20.  Point.Format and Point.String.                          *)
(***************************************************************************)
\* whether Point.Format by the default examples fails for the point
DefaultFormatFails ==
    \/ CoordFormat(point.Lat, LatExample, 0).err # Nil
    \/ CoordFormat(point.Lon, LonExample, 0).err # Nil

\* C17: Point.String returns Point.Format by the default examples when that
\* succeeds and the empty string when it fails, and it fails for a latitude
\* of 90 or more and for a longitude of 180 or more.
C17_PointStringEmpty ==
    pc = "PointString" =>
        /\ DefaultFormatFails => out = <<>>
        /\ ~DefaultFormatFails =>
              \E tieLat \in {0, 1}, tieLon \in {0, 1} :
                  out = PointFormat(point, LatExample, LonExample, PointSeparator,
                                    tieLat, tieLon).s
        /\ (point.Lat.Loc = Lat /\ AtOrBeyond(point.Lat)) => out = <<>>
        /\ (point.Lon.Loc = Lon /\ AtOrBeyond(point.Lon)) => out = <<>>

SideErr(c, fmt) == CoordFormat(c, fmt, 0).err

\* the value is beyond the limit of the location it is formatted for
Beyond(c, fmt) == outOfBounds(effectiveLoc(c, newCoordGroups(fmt).cg), Abs(c.Value))

\* C20: Point.Format is Lat.Format(latFmt) + separator + Lon.Format(lonFmt)
\* when both succeed; when a side fails the result is the empty string and
\* that side's error, ErrInvalidString for a malformed example and
\* ErrOutOfRange for a value beyond its limit, and the latitude's error when
\* both fail.
C20_PointFormatSides ==
    pc = "PointFormat" =>
        /\ (SideErr(point.Lat, fmts.latFmt) = Nil /\ SideErr(point.Lon, fmts.lonFmt) = Nil)
              => /\ err = Nil
                 /\ \E tieLat \in {0, 1}, tieLon \in {0, 1} :
                       out = CoordFormat(point.Lat, fmts.latFmt, tieLat).s
                               \o fmts.separator
                               \o CoordFormat(point.Lon, fmts.lonFmt, tieLon).s
        /\ SideErr(point.Lat, fmts.latFmt) # Nil
              => (out = <<>> /\ err = SideErr(point.Lat, fmts.latFmt))
        /\ (SideErr(point.Lat, fmts.latFmt) = Nil /\ SideErr(point.Lon, fmts.lonFmt) # Nil)
              => (out = <<>> /\ err = SideErr(point.Lon, fmts.lonFmt))
        /\ ~CoversAll(fmts.latFmt) => err = ErrInvalidString
        /\ (CoversAll(fmts.latFmt) /\ Beyond(point.Lat, fmts.latFmt)) => err = ErrOutOfRange
        /\ (SideErr(point.Lat, fmts.latFmt) = Nil /\ ~CoversAll(fmts.lonFmt))
              => err = ErrInvalidString
        /\ (/\ SideErr(point.Lat, fmts.latFmt) = Nil
            /\ CoversAll(fmts.lonFmt)
            /\ Beyond(point.Lon, fmts.lonFmt))
              => err = ErrOutOfRange

\* a malformed latitude example and a longitude beyond its limit
C20_Witness ==
    /\ pc = "PointFormat"
    /\ ~CoversAll(fmts.latFmt)
    /\ CoversAll(fmts.lonFmt)
    /\ Beyond(point.Lon, fmts.lonFmt)
    /\ out = <<>>
    /\ err = ErrInvalidString

(***************************************************************************)
(* C21, C24.  Coord.Format: the example is checked first, and the letter   *)
(* is the Coord's own.                                                     *)
(***************************************************************************)
\* C21: Format fails with ErrInvalidString for every example that is not one
\* whole occurrence of the pattern (none, more than one, leftover
\* characters), also when the value is out of range.
C21_MalformedExampleFirst ==
    (pc = "Format" /\ ~CoversAll(example)) => (err = ErrInvalidString /\ out = <<>>)

\* a Coord beyond the bounds of its own location and a malformed example
C21_Witness ==
    /\ pc = "Format"
    /\ ~CoversAll(example)
    /\ example # <<>>
    /\ coord.Loc = Lat
    /\ Abs(coord.Value) > LatLimit * Scale
    /\ err = ErrInvalidString

\* the hemisphere letter of the example, empty without one
ExampleLetter == Occurrences(example)[1].loc

\* the letter the claim expects: by the Coord's own Loc, and by the example's
\* letter only for a Coord without one
ExpectedLetter ==
    IF coord.Loc = Lat \/ (coord.Loc = None /\ ExampleLetter \in {<<"N">>, <<"S">>})
    THEN (IF coord.Value < 0 THEN "S" ELSE "N")
    ELSE (IF coord.Value < 0 THEN "W" ELSE "E")

\* C24: the output of Format ends with a hemisphere letter iff the example has
\* one; the letter is N or S for a Coord with Loc Lat, E or W for one with Loc
\* Lon, whatever the example's letter is, and follows the example's letter for
\* a Coord with Loc None; S and W stand for a negative value.
C24_LetterByOwnLoc ==
    (pc = "Format" /\ CoversAll(example) /\ err = Nil)
        => /\ ExampleLetter # <<>> => (out # <<>> /\ out[Len(out)] = ExpectedLetter)
           /\ ExampleLetter = <<>> => \A i \in 1..Len(out) : out[i] \notin LocChars

\* a latitude formatted by an example with the letter E
C24_Witness ==
    /\ pc = "Format"
    /\ CoversAll(example)
    /\ coord.Loc = Lat
    /\ coord.Value < 0
    /\ ExampleLetter = <<"E">>
    /\ err = Nil
    /\ out[Len(out)] = "S"

(***************************************************************************)
(* C25.  The numeric shape of the output of Coord.Format.                  *)
(***************************************************************************)
ExampleMatch == Occurrences(example)[1]

\* the output read by the pattern
OutMatch == Occurrences(out)[1]

\* the most granular field of an occurrence m by the fields the example e
\* has: seconds, else minutes, else degrees
Granular(m, e) ==
    IF e.sec # <<>> THEN m.sec
    ELSE IF e.min # <<>> THEN m.min
    ELSE m.deg

\* the digits after the decimal mark of a field
FracDigits(f) == IF IndexAnyMark(f) = 0 THEN 0 ELSE Len(f) - IndexAnyMark(f)

\* the decimal mark of a field, empty without one
MarkOf(f) == IF IndexAnyMark(f) = 0 THEN <<>> ELSE <<f[IndexAnyMark(f)]>>

\* the digits before the decimal mark of a field
IntPart(f) == IF IndexAnyMark(f) = 0 THEN f ELSE SubSeq(f, 1, IndexAnyMark(f) - 1)

\* C25: the output's most granular field has the digits after the mark and
\* the mark of the example's most granular field, none for a compact example;
\* the degrees have at least the integer digits of the example's degrees,
\* zeros in front only up to that width, and are not cut short; a compact
\* example gives four digits of minutes and seconds with nothing between.
C25_NumericShape ==
    (pc = "Format" /\ CoversAll(example) /\ err = Nil)
        => /\ CoversAll(out)
           /\ ~IsCompact(ExampleMatch)
                 => /\ FracDigits(Granular(OutMatch, ExampleMatch))
                          = FracDigits(Granular(ExampleMatch, ExampleMatch))
                    /\ MarkOf(Granular(OutMatch, ExampleMatch))
                          = MarkOf(Granular(ExampleMatch, ExampleMatch))
           /\ IsCompact(ExampleMatch)
                 => /\ Len(OutMatch.min) = 4
                    /\ IndexAnyMark(OutMatch.min) = 0
                    /\ OutMatch.sec = <<>>
           /\ Len(IntPart(OutMatch.deg)) >= Len(IntPart(ExampleMatch.deg))
           /\ Len(IntPart(OutMatch.deg)) > Len(IntPart(ExampleMatch.deg))
                 => Head(OutMatch.deg) # "0"
           /\ DigitsVal(IntPart(OutMatch.deg)) >= Abs(coord.Value) \div Scale

\* minutes with a comma and two digits after it, and degrees of three digits
\* by an example with two
C25_Witness ==
    /\ pc = "Format"
    /\ CoversAll(example)
    /\ err = Nil
    /\ ExampleMatch.sec = <<>>
    /\ MarkOf(ExampleMatch.min) = <<",">>
    /\ MarkOf(OutMatch.min) = <<",">>
    /\ FracDigits(OutMatch.min) = 2
    /\ Len(ExampleMatch.deg) = 2
    /\ Len(OutMatch.deg) = 3

(***************************************************************************)
(* C26.  The output of Coord.Format read back by ParseCoord.               *)
(***************************************************************************)
\* C26: for a value inside its bounds and an example that ParseCoord accepts,
\* the string Format returns is accepted by ParseCoord, and its minutes and
\* seconds are below 60.
C26_OutputParses ==
    (/\ pc = "Format"
     /\ CoversAll(example)
     /\ ParseCoord(example).err = Nil
     /\ err = Nil
     /\ StrictlyInside(coord, ExampleGroups.cg)
     /\ InsideParseRange(coord))
        => /\ ParseCoord(out).err = Nil
           /\ ~SixtyOrMore(FieldsOf(OutMatch))

(***************************************************************************)
(* C27.  The range of a parsed value.                                      *)
(***************************************************************************)
\* C27: a Coord that ParseCoord returns without error has |Value| below 90
\* with Loc Lat and below 180 with Loc Lon or None, and Format of it by the
\* parsed string does not fail with ErrOutOfRange.
C27_ParsedInRange ==
    /\ (pc = "ParseCoord" /\ err = Nil) => InsideParseRange(coord)
    /\ pc = "Format" => err # ErrOutOfRange

(***************************************************************************)
(* C28.  Coord.Format does not evaluate its example.                       *)
(***************************************************************************)
\* C28: an example that is one whole occurrence of the pattern and that
\* ParseCoord rejects (a sign with a letter, minutes or seconds of 60 or
\* more, degrees beyond the limit, a decimal mark in degrees before minutes)
\* is accepted by Format: a value within its bounds is rendered without
\* error.
C28_ExampleNotEvaluated ==
    (/\ pc = "Format"
     /\ CoversAll(example)
     /\ ParseCoord(example).err # Nil
     /\ ~Beyond(coord, example))
        => (err = Nil /\ out # <<>>)

\* an example with a sign, a letter, decimal degrees and minutes
C28_Witness ==
    /\ pc = "Format"
    /\ CoversAll(example)
    /\ SignLocConflict(FieldsOf(ExampleMatch))
    /\ DegMarkConflict(FieldsOf(ExampleMatch))
    /\ ParseCoord(example).err = ErrInvalidCoord
    /\ err = Nil
    /\ out # <<>>

(***************************************************************************)
(* C22, C30.  What comes back with an error.                               *)
(***************************************************************************)
\* the message quotes the string s
Quotes(m, s) == \E i \in 1..Len(m) : m[i].verb = "%q" /\ m[i].arg = s

\* the message prints the number v
Prints(m, v) == \E i \in 1..Len(m) : m[i].verb = "%f" /\ m[i].arg = v

\* C22: the message of every error carries the input that was rejected: the
\* parsed string for ParseCoord and ParsePoint, the example for a malformed
\* example and the value for a value out of range for Coord.Format and
\* Point.Format.
C22_MessageCarriesInput ==
    /\ (pc = "ParseCoord" /\ err # Nil) => Quotes(msg, text)
    /\ (pc = "ParsePoint" /\ err # Nil) => Quotes(msg, text)
    /\ (pc = "Format" /\ err = ErrOutOfRange) => Prints(msg, coord.Value)
    /\ (pc = "Format" /\ err = ErrInvalidString /\ example # <<>>) => Quotes(msg, example)
    /\ (pc = "PointFormat" /\ err = ErrOutOfRange)
          => (Prints(msg, point.Lat.Value) \/ Prints(msg, point.Lon.Value))
    /\ (pc = "PointFormat" /\ err = ErrInvalidString)
          => (Quotes(msg, fmts.latFmt) \/ Quotes(msg, fmts.lonFmt))

\* C30: with an error ParseCoord returns the zero Coord, ParsePoint the zero
\* Point, also when the latitude was evaluated and a later check failed, and
\* Coord.Format and Point.Format the empty string.
C30_NoPartialResult ==
    /\ (pc = "ParseCoord" /\ err # Nil) => coord = ZeroCoord
    /\ (pc = "ParsePoint" /\ err # Nil) => point = ZeroPoint
    /\ (pc = "Format" /\ err # Nil) => out = <<>>
    /\ (pc = "PointFormat" /\ err # Nil) => out = <<>>

\* a latitude that evaluates to a non-zero value, and a longitude that fails
C30_Witness ==
    /\ pc = "ParsePoint"
    /\ Len(Starts(text)) = 2
    /\ OccurrenceCoord(1).err = Nil
    /\ OccurrenceCoord(1).coord.Loc = Lat
    /\ OccurrenceCoord(1).coord.Value # 0
    /\ OccurrenceCoord(2).err = ErrOutOfRange
    /\ err = ErrOutOfRange
    /\ point = ZeroPoint

(***************************************************************************)
(* C29.  StringToPoint and its two arguments parsed apart.                 *)
(***************************************************************************)
\* ParseCoord of each argument on its own
LatAlone == ParseCoord(args.lat)

LonAlone == ParseCoord(args.lon)

\* each argument is a coordinate of its axis and both are of one class
AloneAgree ==
    /\ LatAlone.err = Nil
    /\ LatAlone.coord.Loc = Lat
    /\ LonAlone.err = Nil
    /\ LonAlone.coord.Loc = Lon
    /\ ClassOf(Occurrences(args.lat)[1]) = ClassOf(Occurrences(args.lon)[1])

\* C29: StringToPoint(lat, lon) succeeds iff ParseCoord(lat) gives a
\* latitude, ParseCoord(lon) a longitude and both are of one format class,
\* and then it returns these two Coords; an argument ParseCoord rejects
\* never leads to success.
C29_AgreesWithParseCoord ==
    pc = "StringToPoint" =>
        /\ err = Nil <=> AloneAgree
        /\ err = Nil => point = [Lat |-> LatAlone.coord, Lon |-> LonAlone.coord]

(***************************************************************************)
(* C23.  Concurrent calls.                                                 *)
(***************************************************************************)
\* what the call returns when it runs alone
Sequential(call) ==
    IF call.op = "ParseCoord"
    THEN [coord |-> ParseCoord(call.s).coord, out |-> <<>>, err |-> ParseCoord(call.s).err]
    ELSE [coord |-> ZeroCoord, out |-> CoordFormat(call.c, call.s, call.tie).s,
          err |-> CoordFormat(call.c, call.s, call.tie).err]

\* what the call has returned
Returned(call) == [coord |-> call.coord, out |-> call.out, err |-> call.err]

\* the arguments of the call
Arguments(call) == <<call.op, call.s, call.c, call.tie>>

\* C23: whatever the interleaving of the steps of concurrent calls, every
\* call returns what it returns when it runs alone, and two calls with the
\* same arguments return the same.
C23_ConcurrentAsSequential ==
    pc = "go" =>
        /\ \A g \in Goroutines :
              calls[g].pc = "done" => Returned(calls[g]) = Sequential(calls[g])
        /\ \A g \in Goroutines, h \in Goroutines :
              (/\ calls[g].pc = "done"
               /\ calls[h].pc = "done"
               /\ Arguments(calls[g]) = Arguments(calls[h]))
                  => Returned(calls[g]) = Returned(calls[h])

\* a call of ParseCoord has returned a value while another call, of a
\* different string, is between two steps of getCoord that write to its
\* coordGroups
C23_Witness ==
    /\ pc = "go"
    /\ calls["g1"].op = "ParseCoord"
    /\ calls["g1"].pc = "done"
    /\ calls["g1"].err = Nil
    /\ cgs["g1"].min # newCoordGroups(calls["g1"].s).cg.min
    /\ calls["g2"].op = "ParseCoord"
    /\ calls["g2"].pc = "getSeconds"
    /\ calls["g2"].s # calls["g1"].s
    /\ cgs["g2"].sec # <<>>

====
